---- MODULE Spec2Model ----
(***************************************************************************)
(* Karpenter cleanup custom resource                                       *)
(* (unitune-infra/lib/constructs/k8s/karpenter-cleanup/index.py).          *)
(*                                                                         *)
(* One invocation of the Lambda entry point `handler`, or one direct call  *)
(* of wait_for_karpenter_nodes_terminated or cleanup_instance_profiles.    *)
(* The program is single threaded: `pc` is the position of the one thread. *)
(* Every external call (kubectl, aws, EC2, IAM, the HTTP PUT) is one step  *)
(* whose outcome is chosen among the outcomes the collaborator can give.   *)
(***************************************************************************)
EXTENDS Integers, Sequences, FiniteSets, TLC

(* ---------------------------- bounds ---------------------------------- *)
\* most instances one describe_instances answer reports
MaxInstances == 2
\* most seconds one describe_instances call takes
MaxLatency == 1
\* largest timeout of a direct call of wait_for_karpenter_nodes_terminated
MaxTimeout == 31
\* largest max_retries of a direct call of cleanup_instance_profiles
MaxRetries == 3
\* most instance profiles the paginated listing yields, over all its pages
MaxProfiles == 2
\* most pages the paginated listing yields
MaxPages == 2

(* ------------------------ program constants --------------------------- *)
\* time.sleep(15) of the polling loop
PollSleep == 15
\* timeout=300 handed to wait_for_karpenter_nodes_terminated by handler
HandlerWaitTimeout == 300
\* max_retries=3 handed to cleanup_instance_profiles by handler
HandlerMaxRetries == 3

\* Python's None
None == "None"
\* the values a region string takes: absent, empty, a region name, or a string
\* that botocore's validate_region_name rejects when a client is created
PropRegions == {None, "", "us-east-1", "us east 1"}
EnvRegions == {None, "", "eu-west-1"}
DirectRegions == {"us-east-1", "us east 1"}
ValidRegion(r) == r \in {"us-east-1", "eu-west-1"}
RequestTypes == {"Create", "Update", "Delete", "Other"}
\* which function the invocation enters
Entries == {"handler", "wait", "cleanup"}

VARIABLES
  entry,          \* the function called from outside
  request_type,   \* event['RequestType']
  propRegion,     \* event['ResourceProperties'].get('Region')
  envRegion,      \* os.environ.get('AWS_REGION')
  kubectlExists,  \* os.path.exists('/opt/kubectl/kubectl')
  kubectlExec,    \* os.access('/opt/kubectl/kubectl', os.X_OK)
  pc,             \* position of the thread
  region,         \* the local or parameter `region`
  pending,        \* arguments of the send_response call in progress
  caught,         \* the except clause of handler entered, the step and the exception
  puts,           \* the HTTP PUTs issued to ResponseURL, in order
  received,       \* the statuses that reached the caller, in order
  result,         \* how the entered function ended
  steps,          \* the steps of the teardown sequence begun or ended, in order
  warnings,       \* the bulk deletes whose warning handler logged (lines 164, 177)
  calls,          \* the kinds of external call issued so far
  timeout,        \* wait: parameter
  elapsed,        \* wait: time.time() - start_time
  polls,          \* wait: describe_instances calls issued
  sleeps,         \* wait: time.sleep(15) calls made
  lastCount,      \* wait: instance_count of the latest answer, -1 before the first
  waitResult,     \* wait: the value returned
  max_retries,    \* cleanup: parameter
  pagesFetched,   \* cleanup: pages the paginator has yielded
  pageLeft,       \* cleanup: profiles of the current page not yet begun
  attempt,        \* cleanup: loop variable of `for attempt in range(max_retries)`
  hist,           \* cleanup: the calls made for the current profile, in order
  finished,       \* cleanup: how the loop of each profile ended, in listing order
  listError       \* cleanup: the except clause the listing ended in

hvars == <<entry, request_type, propRegion, envRegion, kubectlExists, kubectlExec,
           pc, region, pending, caught, puts, received, result, steps, warnings,
           calls>>
wvars == <<timeout, elapsed, polls, sleeps, lastCount, waitResult>>
cvars == <<max_retries, pagesFetched, pageLeft, attempt, hist, finished, listError>>
vars == <<hvars, wvars, cvars>>
hvars_but_pc == <<entry, request_type, propRegion, envRegion, kubectlExists,
                  kubectlExec, region, pending, caught, puts, received, result,
                  steps, warnings, calls>>

(* ------------------------- pure helpers ------------------------------- *)
\* a mutation: only None counts as missing
TruthyNotNone(s) == s # None

\* Python truthiness of an optional string (lines 105-106: `or`, `not region`)
Truthy(s) == s # None /\ s # ""

\* `a or b`
PyOr(a, b) == IF Truthy(a) THEN a ELSE b

\* a mutation: the environment variable is never consulted
ResolveRegionNoEnv(prop, env) == prop

\* region = event['ResourceProperties'].get('Region') or os.environ.get('AWS_REGION')
ResolveRegion(prop, env) == PyOr(prop, env)

\* a mutation: an Update runs the teardown as well
NeedsCleanupOnUpdate(rt) == rt \in {"Delete", "Update"}

\* line 112: only a Delete request runs the teardown
NeedsCleanup(rt) == rt = "Delete"

\* exception classes the external calls raise
SubprocessErrors == {"TimeoutExpired", "OSError"}

\* a mutation: a timeout is swallowed like a failed command
ExceptClauseTimeoutGeneric(exc) ==
  IF exc = "CalledProcessError" THEN "called" ELSE "generic"

\* which except clause of handler's try statement takes the exception
ExceptClause(exc) ==
  IF exc = "TimeoutExpired" THEN "timeout"
  ELSE IF exc = "CalledProcessError" THEN "called"
  ELSE "generic"

\* a mutation: the blanket clause reports the failure
ClauseStatusFailed(clause) == IF clause = "generic" THEN "FAILED" ELSE "SUCCESS"

\* lines 195, 199, 203: the status each except clause sends
ClauseStatus(clause) == "SUCCESS"

\* lines 195, 199, 203: the message each except clause sends
ClauseMessage(clause) ==
  CASE clause = "timeout" -> "Cleanup attempted but timed out"
    [] clause = "called"  -> "Cleanup attempted with warnings"
    [] OTHER              -> "Cleanup attempted with errors"

NoPending == [status |-> None, msg |-> None, step |-> None]
NoCaught == [clause |-> None, step |-> None, exc |-> None]
Running == [status |-> "running", exc |-> None]
Returned == [status |-> "returned", exc |-> None]
Raised(exc) == [status |-> "raised", exc |-> exc]


\* an exception leaves the function that was entered from outside
Propagate(exc) == Raised(exc)

(* --------------------------- initial state ---------------------------- *)
Init ==
  /\ entry \in Entries
  /\ request_type \in (IF entry = "handler" THEN RequestTypes ELSE {None})
  /\ propRegion \in (IF entry = "handler" THEN PropRegions ELSE {None})
  /\ envRegion \in (IF entry = "handler" THEN EnvRegions ELSE {None})
  /\ kubectlExists \in (IF entry = "handler" THEN BOOLEAN ELSE {FALSE})
  /\ kubectlExec \in (IF entry = "handler" /\ kubectlExists THEN BOOLEAN ELSE {FALSE})
  /\ pc = (CASE entry = "handler" -> "h_entry"
             [] entry = "wait" -> "w_client"
             [] entry = "cleanup" -> "c_client")
  /\ region \in (IF entry = "handler" THEN {None} ELSE DirectRegions)
  /\ pending = NoPending
  /\ caught = NoCaught
  /\ puts = <<>>
  /\ received = <<>>
  /\ result = Running
  /\ steps = <<>>
  /\ warnings = {}
  /\ calls = {}
  /\ timeout \in (IF entry = "wait" THEN 0..MaxTimeout ELSE {0})
  /\ elapsed = 0 /\ polls = 0 /\ sleeps = 0 /\ lastCount = -1 /\ waitResult = None
  /\ max_retries \in (IF entry = "cleanup" THEN 0..MaxRetries ELSE {0})
  /\ pagesFetched = 0 /\ pageLeft = 0 /\ attempt = 0
  /\ hist = <<>> /\ finished = <<>> /\ listError = None

(* ------------------------------ handler ------------------------------- *)
\* send_response(event, context, status, data) is called; `step` names the
\* statement of the try block that calls it, None when the call is outside it
CallSend(status, msg, step) ==
  /\ pc' = "send"
  /\ pending' = [status |-> status, msg |-> msg, step |-> step]

\* an exception leaves a statement of handler's try block
RaiseInTry(exc, step) ==
  /\ caught' = [clause |-> ExceptClause(exc), step |-> step, exc |-> exc]
  /\ CallSend(ClauseStatus(ExceptClause(exc)), ClauseMessage(ExceptClause(exc)), None)

\* an exception leaves wait_for_karpenter_nodes_terminated or
\* cleanup_instance_profiles: into handler's try block (lines 184, 188), or out
\* of the function when it was called directly
RaiseFromCall(exc, step) ==
  IF entry = "handler"
    THEN RaiseInTry(exc, step) /\ UNCHANGED result
    ELSE /\ pc' = "done"
         /\ result' = Propagate(exc)
         /\ UNCHANGED <<pending, caught>>

\* lines 102-113: read the event, resolve the region, dispatch on the request type
HandlerEntry ==
  /\ pc = "h_entry"
  /\ region' = ResolveRegion(propRegion, envRegion)
  /\ IF ~Truthy(region')
       THEN /\ pc' = "done"
            /\ result' = Propagate("ValueError")
            /\ UNCHANGED pending
       ELSE /\ result' = result
            /\ IF ~NeedsCleanup(request_type)
                 THEN CallSend("SUCCESS", "No cleanup needed", None)
                 ELSE pc' = "h_kubectl" /\ UNCHANGED pending
  /\ UNCHANGED <<entry, request_type, propRegion, envRegion, kubectlExists,
                 kubectlExec, caught, puts, received, steps, warnings, calls>>
  /\ UNCHANGED <<wvars, cvars>>

\* lines 117-129: the kubectl binary must exist and be executable
CheckKubectl ==
  /\ pc = "h_kubectl"
  /\ IF ~kubectlExists
       THEN CallSend("FAILED", "kubectl not found", "prereq")
       ELSE IF ~kubectlExec
         THEN CallSend("FAILED", "kubectl is not executable", "prereq")
         ELSE pc' = "h_version" /\ UNCHANGED pending
  /\ UNCHANGED <<entry, request_type, propRegion, envRegion, kubectlExists,
                 kubectlExec, region, caught, puts, received, result, steps,
                 warnings, calls>>
  /\ UNCHANGED <<wvars, cvars>>

\* what subprocess.run(..., timeout=t) without check=True does: an exit code,
\* TimeoutExpired, or OSError when the program cannot be started
SubprocessOutcomes == {"rc0", "rc1"} \cup SubprocessErrors

\* the steps whose warning is kept in `warnings`
BulkDeletes == {"nodepools", "nodeclasses"}

\* a mutation: a non-zero exit ends the teardown and goes to the report
AfterExitStopsOnFailure(o, next) == IF o = "rc1" THEN "h_report" ELSE next

\* lines 138-141, 151-153, 163-166, 176-179: whatever the exit code, the if/else
\* only logs, and the next statement follows
AfterExit(o, next) == next

\* one subprocess.run statement of the try block and the if/else that logs
\* its exit code: a non-zero exit is a warning, and the next statement follows
RunStep(here, step, kind, next) ==
  /\ pc = here
  /\ steps' = Append(steps, step)
  /\ calls' = calls \cup {kind}
  /\ \E o \in SubprocessOutcomes :
       IF o \in SubprocessErrors
         THEN /\ RaiseInTry(o, step)
              /\ UNCHANGED warnings
         ELSE /\ pc' = AfterExit(o, next)
              /\ warnings' = IF o = "rc1" /\ step \in BulkDeletes
                              THEN warnings \cup {step} ELSE warnings
              /\ UNCHANGED <<pending, caught>>
  /\ UNCHANGED <<entry, request_type, propRegion, envRegion, kubectlExists,
                 kubectlExec, region, puts, received, result>>
  /\ UNCHANGED <<wvars, cvars>>

\* lines 132-141: kubectl version --client --short
KubectlVersion == RunStep("h_version", "version", "kubectl_version", "h_kubeconfig")

\* lines 145-153: aws eks update-kubeconfig
UpdateKubeconfig == RunStep("h_kubeconfig", "kubeconfig", "aws_kubeconfig", "h_nodepools")

\* lines 156-166: kubectl delete nodepools.karpenter.sh --all
DeleteNodePools == RunStep("h_nodepools", "nodepools", "kubectl_delete", "h_nodeclasses")

\* a mutation: the instance wait is left out after the node-class delete
DeleteNodeClassesThenCleanup ==
  RunStep("h_nodeclasses", "nodeclasses", "kubectl_delete", "h_cleanup")

\* lines 169-179: kubectl delete ec2nodeclasses.karpenter.k8s.aws --all
DeleteNodeClasses == RunStep("h_nodeclasses", "nodeclasses", "kubectl_delete", "h_wait")

\* line 184: wait_for_karpenter_nodes_terminated(cluster_name, region, timeout=300)
CallWait ==
  /\ pc = "h_wait"
  /\ pc' = "w_client"
  /\ steps' = Append(steps, "wait")
  /\ timeout' = HandlerWaitTimeout
  /\ elapsed' = 0 /\ polls' = 0 /\ sleeps' = 0 /\ lastCount' = -1
  /\ waitResult' = None
  /\ UNCHANGED <<entry, request_type, propRegion, envRegion, kubectlExists,
                 kubectlExec, region, pending, caught, puts, received, result,
                 warnings, calls>>
  /\ UNCHANGED cvars

\* line 188: cleanup_instance_profiles(cluster_name, region, max_retries=3)
CallCleanup ==
  /\ pc = "h_cleanup"
  /\ pc' = "c_client"
  /\ steps' = Append(steps, "cleanup")
  /\ max_retries' = HandlerMaxRetries
  /\ pagesFetched' = 0 /\ pageLeft' = 0 /\ attempt' = 0
  /\ hist' = <<>> /\ finished' = <<>> /\ listError' = None
  /\ UNCHANGED <<entry, request_type, propRegion, envRegion, kubectlExists,
                 kubectlExec, region, pending, caught, puts, received, result,
                 warnings, calls>>
  /\ UNCHANGED wvars

\* a mutation: the final report carries the message of the blanket clause
FinalReportErrors ==
  [status |-> "SUCCESS", msg |-> "Cleanup attempted with errors"]

\* line 190: the status and the message of the final report
FinalReport ==
  [status |-> "SUCCESS", msg |-> "Karpenter resources cleaned up successfully"]

\* line 190: the final report
Report ==
  /\ pc = "h_report"
  /\ CallSend(FinalReport.status, FinalReport.msg, "report")
  /\ UNCHANGED <<entry, request_type, propRegion, envRegion, kubectlExists,
                 kubectlExec, region, caught, puts, received, result, steps,
                 warnings, calls>>
  /\ UNCHANGED <<wvars, cvars>>

\* what http.request('PUT', ResponseURL, ...) does: it returns once the body is
\* delivered, raises with the body undelivered (no connection), or raises after
\* the body was delivered (the reply is lost)
HttpOutcomes == {"delivered", "refused", "reply_lost"}

\* lines 206-228: send_response, and the return or the exception that follows in
\* handler
SendResponse ==
  /\ pc = "send"
  /\ puts' = Append(puts, [status |-> pending.status, msg |-> pending.msg])
  /\ calls' = calls \cup {"http_put"}
  /\ \E o \in HttpOutcomes :
       /\ received' = IF o = "refused" THEN received
                      ELSE Append(received, pending.status)
       /\ IF o = "delivered"
            THEN /\ pc' = "done"
                 /\ result' = Returned
                 /\ pending' = NoPending
                 /\ UNCHANGED caught
            ELSE IF pending.step # None
              THEN /\ RaiseInTry("HTTPError", pending.step)
                   /\ UNCHANGED result
              ELSE /\ pc' = "done"
                   /\ result' = Propagate("HTTPError")
                   /\ pending' = NoPending
                   /\ UNCHANGED caught
  /\ UNCHANGED <<entry, request_type, propRegion, envRegion, kubectlExists,
                 kubectlExec, region, steps, warnings>>
  /\ UNCHANGED <<wvars, cvars>>

(* ---------------- wait_for_karpenter_nodes_terminated ----------------- *)
\* a mutation: the loop runs while the timeout has not been exceeded
LoopConditionInclusive(t, limit) == t <= limit

\* line 20: while time.time() - start_time < timeout
LoopCondition(t, limit) == t < limit

\* a mutation: an empty answer is not taken as termination
AllTerminatedNever(count) == FALSE

\* line 32: if instance_count == 0
AllTerminated(count) == count = 0

\* lines 17-18: boto3.client('ec2', region_name=region), which raises
\* InvalidRegionError for a malformed region name; then start_time
WaitClient ==
  /\ pc = "w_client"
  /\ IF ValidRegion(region)
       THEN pc' = "w_test" /\ UNCHANGED <<pending, caught, result>>
       ELSE RaiseFromCall("InvalidRegionError", "wait")
  /\ UNCHANGED <<entry, request_type, propRegion, envRegion, kubectlExists,
                 kubectlExec, region, puts, received, steps, warnings, calls>>
  /\ UNCHANGED wvars
  /\ UNCHANGED cvars

\* lines 20, 39-40: the loop test, and the return of False when it fails
WaitTest ==
  /\ pc = "w_test"
  /\ IF LoopCondition(elapsed, timeout)
       THEN pc' = "w_query" /\ UNCHANGED waitResult
       ELSE pc' = "w_return" /\ waitResult' = "False"
  /\ UNCHANGED <<entry, request_type, propRegion, envRegion, kubectlExists,
                 kubectlExec, region, pending, caught, puts, received, result,
                 steps, warnings, calls>>
  /\ UNCHANGED <<timeout, elapsed, polls, sleeps, lastCount>>
  /\ UNCHANGED cvars

\* lines 22-34: one describe_instances call, the count of its answer, and the
\* return of True when the count is zero; the call raises when the API fails
WaitQuery ==
  /\ pc = "w_query"
  /\ polls' = polls + 1
  /\ calls' = calls \cup {"ec2_describe"}
  /\ \/ \E count \in 0..MaxInstances, latency \in 0..MaxLatency :
          /\ elapsed' = elapsed + latency
          /\ lastCount' = count
          /\ IF AllTerminated(count)
               THEN pc' = "w_return" /\ waitResult' = "True"
               ELSE pc' = "w_sleep" /\ UNCHANGED waitResult
          /\ UNCHANGED <<pending, caught, result>>
     \/ /\ RaiseFromCall("ClientError", "wait")
        /\ UNCHANGED <<elapsed, lastCount, waitResult>>
  /\ UNCHANGED <<entry, request_type, propRegion, envRegion, kubectlExists,
                 kubectlExec, region, puts, received, steps, warnings>>
  /\ UNCHANGED <<timeout, sleeps>>
  /\ UNCHANGED cvars

\* lines 36-37: time.sleep(15)
WaitSleep ==
  /\ pc = "w_sleep"
  /\ pc' = "w_test"
  /\ sleeps' = sleeps + 1
  /\ elapsed' = elapsed + PollSleep
  /\ UNCHANGED hvars_but_pc
  /\ UNCHANGED <<timeout, polls, lastCount, waitResult>>
  /\ UNCHANGED cvars

\* a mutation: handler gives up when the wait timed out
AfterWaitStopsOnFalse(r) == IF r = "False" THEN "h_report" ELSE "h_cleanup"

\* lines 184-188: the value returned by the wait is not looked at, the cleanup
\* of instance profiles follows
AfterWait(r) == "h_cleanup"

\* lines 34, 40: the return; in handler (line 184) the value is dropped and
\* the frame with it
WaitReturn ==
  /\ pc = "w_return"
  /\ IF entry = "handler"
       THEN /\ pc' = AfterWait(waitResult)
            /\ steps' = Append(steps, "wait_returned")
            /\ elapsed' = 0 /\ polls' = 0 /\ sleeps' = 0 /\ lastCount' = -1
            /\ UNCHANGED result
       ELSE /\ pc' = "done"
            /\ result' = Returned
            /\ UNCHANGED <<steps, elapsed, polls, sleeps, lastCount>>
  /\ UNCHANGED <<entry, request_type, propRegion, envRegion, kubectlExists,
                 kubectlExec, region, pending, caught, puts, received,
                 warnings, calls>>
  /\ UNCHANGED <<timeout, waitResult>>
  /\ UNCHANGED cvars

(* --------------------- cleanup_instance_profiles ---------------------- *)
\* the errors an IAM call raises: NoSuchEntityException, an error whose text
\* holds 'DeleteConflict', an error whose text holds 'in use' in some case, and
\* an error whose text holds neither
IamErrors == {"NoSuchEntity", "DeleteConflict", "InUse", "Other"}
IamOutcomes == {"ok"} \cup IamErrors

\* line 82: 'DeleteConflict' in error_msg or 'in use' in error_msg.lower()
IsConflict(err) == err \in {"DeleteConflict", "InUse"}

\* lines 77-82: which except clause, and which branch of line 82, the outcome
\* of an IAM call falls in
Classify(o) ==
  IF o = "ok" THEN "ok"
  ELSE IF o = "NoSuchEntity" THEN "notfound"
  ELSE IF IsConflict(o) THEN "conflict"
  ELSE "other"

\* a mutation: the last attempt sleeps as well (attempt < max_retries)
AfterErrorSleepAlways(err, att, retries) ==
  IF err = "NoSuchEntity" THEN "gone"
  ELSE IF IsConflict(err)
    THEN IF att < retries THEN "sleep" ELSE "exhausted"
    ELSE "abandon"

\* a mutation: every error but not-found is retried like a conflict
AfterErrorRetryOther(err, att, retries) ==
  IF err = "NoSuchEntity" THEN "gone"
  ELSE IF att < retries - 1 THEN "sleep" ELSE "exhausted"

\* a mutation: a conflict is not retried
AfterErrorNoRetry(err, att, retries) ==
  IF err = "NoSuchEntity" THEN "gone"
  ELSE IF IsConflict(err) THEN "exhausted"
  ELSE "abandon"

\* lines 77-90: what the except clauses of one attempt decide
\*   "gone"      line 78-79: info, break
\*   "sleep"     line 84-85: info, time.sleep(20), next attempt
\*   "exhausted" line 87:    warning, the loop goes on to its end
\*   "abandon"   line 89-90: warning, break
AfterError(err, att, retries) ==
  IF err = "NoSuchEntity" THEN "gone"
  ELSE IF IsConflict(err)
    THEN IF att < retries - 1 THEN "sleep" ELSE "exhausted"
    ELSE "abandon"

\* the events of `hist`
Ev(op, res) == [op |-> op, res |-> res]

\* how many events of a history are calls or log lines of kind `op`
RECURSIVE CountOp(_, _)
CountOp(h, op) ==
  IF h = <<>> THEN 0
  ELSE (IF Head(h).op = op THEN 1 ELSE 0) + CountOp(Tail(h), op)

\* how the retry loop of a profile ended, read off its history:
\*   "untouched" no attempt was made (max_retries = 0)
\*   "deleted"   delete_instance_profile succeeded (line 74-75)
\*   "gone"      NoSuchEntityException (line 77-79)
\*   "exhausted" conflict on the last attempt (line 87)
\*   "abandoned" another error (line 89-90)
Summary(h) ==
  IF h = <<>> THEN "untouched"
  ELSE IF h[Len(h)].op = "warn" THEN h[Len(h)].res
  ELSE IF h[Len(h)].res = "ok" THEN "deleted"
  ELSE "gone"

\* lines 48-51: boto3.client('iam', region_name=region), outside the try
\* statement of line 53
CleanupClient ==
  /\ pc = "c_client"
  /\ IF ValidRegion(region)
       THEN pc' = "c_page" /\ UNCHANGED <<pending, caught, result>>
       ELSE RaiseFromCall("InvalidRegionError", "cleanup")
  /\ UNCHANGED <<entry, request_type, propRegion, envRegion, kubectlExists,
                 kubectlExec, region, puts, received, steps, warnings, calls>>
  /\ UNCHANGED wvars
  /\ UNCHANGED cvars

\* a mutation: without the clause of line 92 and with the blanket clause
\* re-raising, no listing error is swallowed
ListingCaughtNever(e) == FALSE

\* lines 92-95: the two except clauses of the outer try swallow every error of
\* the listing, a missing role included
ListingCaught(e) == e \in {"NoSuchEntity", "Exception"}

\* lines 55-56, 92-95: the paginator yields the next page, ends, or raises; the
\* first request always answers with a page or an error
CleanupPage ==
  /\ pc = "c_page"
  /\ \/ /\ pagesFetched < MaxPages
        /\ \E n \in 0..(MaxProfiles - Len(finished)) :
             /\ pageLeft' = n
             /\ pagesFetched' = pagesFetched + 1
             /\ pc' = "c_profile"
             /\ calls' = calls \cup {"iam_list"}
             /\ UNCHANGED <<listError, pending, caught, result>>
     \/ /\ pagesFetched >= 1
        /\ pc' = "c_return"
        /\ UNCHANGED <<pageLeft, pagesFetched, listError, calls>>
        /\ UNCHANGED <<pending, caught, result>>
     \/ /\ pagesFetched < MaxPages
        /\ \E e \in {"NoSuchEntity", "Exception"} :
             IF ListingCaught(e)
               THEN /\ listError' = e
                    /\ pc' = "c_return"
                    /\ UNCHANGED <<pending, caught, result>>
               ELSE /\ RaiseFromCall(e, "cleanup")
                    /\ UNCHANGED listError
        /\ calls' = calls \cup {"iam_list"}
        /\ UNCHANGED <<pageLeft, pagesFetched>>
  /\ UNCHANGED <<entry, request_type, propRegion, envRegion, kubectlExists,
                 kubectlExec, region, puts, received, steps, warnings>>
  /\ UNCHANGED <<max_retries, attempt, hist, finished>>
  /\ UNCHANGED wvars

\* lines 57-59: the next profile of the page, or the next page
CleanupProfile ==
  /\ pc = "c_profile"
  /\ IF pageLeft = 0
       THEN pc' = "c_page" /\ UNCHANGED <<pageLeft, attempt, hist>>
       ELSE /\ pageLeft' = pageLeft - 1
            /\ attempt' = 0
            /\ hist' = <<>>
            /\ pc' = "c_attempt"
  /\ UNCHANGED hvars_but_pc
  /\ UNCHANGED <<max_retries, pagesFetched, finished, listError>>
  /\ UNCHANGED wvars

\* a mutation: the range holds one value more
RangeHasNextInclusive(att, retries) == att <= retries

\* line 62: range(max_retries) yields 0 .. max_retries - 1
RangeHasNext(att, retries) == att < retries

\* line 62: for attempt in range(max_retries); when the range is used up the
\* profile's loop ends
CleanupAttempt ==
  /\ pc = "c_attempt"
  /\ pc' = IF RangeHasNext(attempt, max_retries) THEN "c_detach" ELSE "c_end"
  /\ UNCHANGED hvars_but_pc
  /\ UNCHANGED cvars
  /\ UNCHANGED wvars

\* the except clauses of lines 77-90 after the call `op` raised `err`
HandleIamError(op, err) ==
  LET d == AfterError(err, attempt, max_retries) IN
  CASE d = "gone" ->
         /\ hist' = Append(hist, Ev(op, Classify(err)))
         /\ pc' = "c_end"
         /\ UNCHANGED attempt
    [] d = "sleep" ->
         /\ hist' = Append(hist, Ev(op, Classify(err)))
         /\ pc' = "c_sleep"
         /\ UNCHANGED attempt
    [] d = "exhausted" ->
         /\ hist' = hist \o <<Ev(op, Classify(err)), Ev("warn", "exhausted")>>
         /\ attempt' = attempt + 1
         /\ pc' = "c_attempt"
    [] OTHER ->
         /\ hist' = hist \o <<Ev(op, Classify(err)), Ev("warn", "abandoned")>>
         /\ pc' = "c_end"
         /\ UNCHANGED attempt

\* a mutation: the delete is issued whatever the detach did
DetachAllowsDeleteAlways(o) == TRUE

\* lines 66-73: the delete statement is reached only when the detach call
\* returned; an exception of the detach goes to the except clauses
DetachAllowsDelete(o) == o = "ok"

\* lines 65-69: remove_role_from_instance_profile
CleanupDetach ==
  /\ pc = "c_detach"
  /\ calls' = calls \cup {"iam_detach"}
  /\ \E o \in IamOutcomes :
       IF DetachAllowsDelete(o)
         THEN /\ hist' = Append(hist, Ev("detach", Classify(o)))
              /\ pc' = "c_delete"
              /\ UNCHANGED attempt
         ELSE HandleIamError("detach", o)
  /\ UNCHANGED <<entry, request_type, propRegion, envRegion, kubectlExists,
                 kubectlExec, region, pending, caught, puts, received, result,
                 steps, warnings>>
  /\ UNCHANGED <<max_retries, pagesFetched, pageLeft, finished, listError>>
  /\ UNCHANGED wvars

\* lines 72-75: delete_instance_profile, and the break after its success
CleanupDelete ==
  /\ pc = "c_delete"
  /\ calls' = calls \cup {"iam_delete"}
  /\ \E o \in IamOutcomes :
       IF o = "ok"
         THEN /\ hist' = Append(hist, Ev("delete", "ok"))
              /\ pc' = "c_end"
              /\ UNCHANGED attempt
         ELSE HandleIamError("delete", o)
  /\ UNCHANGED <<entry, request_type, propRegion, envRegion, kubectlExists,
                 kubectlExec, region, pending, caught, puts, received, result,
                 steps, warnings>>
  /\ UNCHANGED <<max_retries, pagesFetched, pageLeft, finished, listError>>
  /\ UNCHANGED wvars

\* line 85: time.sleep(20), then the next value of the range
CleanupSleep ==
  /\ pc = "c_sleep"
  /\ hist' = Append(hist, Ev("sleep", "ok"))
  /\ attempt' = attempt + 1
  /\ pc' = "c_attempt"
  /\ UNCHANGED hvars_but_pc
  /\ UNCHANGED <<max_retries, pagesFetched, pageLeft, finished, listError>>
  /\ UNCHANGED wvars

\* the retry loop of one profile has ended (break, or the range used up): the
\* loop of line 57 goes on
CleanupEndProfile ==
  /\ pc = "c_end"
  /\ finished' = Append(finished, Summary(hist))
  /\ hist' = <<>>
  /\ attempt' = 0
  /\ pc' = "c_profile"
  /\ UNCHANGED hvars_but_pc
  /\ UNCHANGED <<max_retries, pagesFetched, pageLeft, listError>>
  /\ UNCHANGED wvars

\* the function returns None; in handler (lines 188-190) the final report follows
CleanupReturn ==
  /\ pc = "c_return"
  /\ IF entry = "handler"
       THEN /\ pc' = "h_report"
            /\ steps' = Append(steps, "cleanup_returned")
            /\ UNCHANGED result
       ELSE /\ pc' = "done"
            /\ result' = Returned
            /\ UNCHANGED steps
  /\ UNCHANGED <<entry, request_type, propRegion, envRegion, kubectlExists,
                 kubectlExec, region, pending, caught, puts, received,
                 warnings, calls>>
  /\ UNCHANGED cvars
  /\ UNCHANGED wvars

(* --------------------------- specification ---------------------------- *)
Next ==
  \/ HandlerEntry
  \/ CheckKubectl
  \/ KubectlVersion
  \/ UpdateKubeconfig
  \/ DeleteNodePools
  \/ DeleteNodeClasses
  \/ CallWait
  \/ CallCleanup
  \/ Report
  \/ SendResponse
  \/ WaitClient
  \/ WaitTest
  \/ WaitQuery
  \/ WaitSleep
  \/ WaitReturn
  \/ CleanupClient
  \/ CleanupPage
  \/ CleanupProfile
  \/ CleanupAttempt
  \/ CleanupDetach
  \/ CleanupDelete
  \/ CleanupSleep
  \/ CleanupEndProfile
  \/ CleanupReturn

Spec == Init /\ [][Next]_vars

\* the one thread runs until the entered function ends
FairSpec == Spec /\ WF_vars(Next)

(* ------------------------------ claims -------------------------------- *)
Done == pc = "done"
InHandler == entry = "handler"

\* the statuses of the PUTs issued so far
Sent == {puts[i].status : i \in 1..Len(puts)}

\* every external call but the response PUT
CloudCalls == {"kubectl_version", "aws_kubeconfig", "kubectl_delete",
               "ec2_describe", "iam_list", "iam_detach", "iam_delete"}

\* a region is given in ResourceProperties or in AWS_REGION
RegionGiven == propRegion \notin {None, ""} \/ envRegion \notin {None, ""}

\* the statements of the try block after the prerequisite check
TeardownSteps == {"version", "kubeconfig", "nodepools", "nodeclasses", "wait",
                  "cleanup", "report"}

\* C1 as stated: every invocation whose RequestType is not "Delete" issues no
\* cloud call and, when it has ended, has sent a response with Status
\* SUCCESS.
C1_Original ==
  (InHandler /\ request_type # "Delete") =>
    /\ calls \cap CloudCalls = {}
    /\ Done => "SUCCESS" \in Sent

\* C1 as amended: an invocation whose RequestType is not "Delete" issues no
\* kubectl, aws, EC2 or IAM call at any point; when it has ended and a region
\* was given it has sent exactly one response, SUCCESS "No cleanup needed";
\* when no region was given it has sent nothing and raised ValueError.
C1_NonDeleteNoSideEffects ==
  (InHandler /\ request_type # "Delete") =>
    /\ calls \cap CloudCalls = {}
    /\ steps = <<>>
    /\ Done =>
         IF RegionGiven
           THEN puts = <<[status |-> "SUCCESS", msg |-> "No cleanup needed"]>>
           ELSE puts = <<>> /\ result = Raised("ValueError")

C1_Witness ==
  /\ InHandler /\ request_type = "Update" /\ Done
  /\ result = Returned
  /\ puts = <<[status |-> "SUCCESS", msg |-> "No cleanup needed"]>>

\* C2: in a Delete invocation an exception raised by a teardown step after
\* the prerequisite check (version check, kubeconfig refresh, node-pool delete,
\* node-class delete, instance wait, profile cleanup, final report) enters an
\* except clause of handler, which sends a response with Status SUCCESS; the
\* invocation then ends by returning, or by the failure of that very send, and
\* never with the exception of the step.
C2_TeardownExceptionsBecomeSuccess ==
  (InHandler /\ caught.step \in TeardownSteps) =>
    /\ request_type = "Delete"
    /\ pc \in {"send", "done"}
    /\ pc = "send" =>
         /\ pending.status = "SUCCESS"
         /\ pending.step = None
         /\ result = Running
    /\ Done =>
         /\ puts # <<>>
         /\ puts[Len(puts)] = [status |-> "SUCCESS",
                               msg |-> ClauseMessage(caught.clause)]
         /\ result.status = "raised" => result.exc = "HTTPError"

C2_Witness ==
  /\ InHandler /\ Done /\ result = Returned
  /\ caught = [clause |-> "generic", step |-> "wait", exc |-> "ClientError"]
  /\ puts = <<[status |-> "SUCCESS", msg |-> "Cleanup attempted with errors"]>>

\* C3 as stated: every invocation of handler, whatever its inputs, has sent a
\* response to the ResponseURL when it ends.
C3_Original == (InHandler /\ Done) => puts # <<>>

\* C3 as amended: every invocation of handler for which a region is given, in
\* ResourceProperties or in AWS_REGION, eventually issues a response PUT to the
\* ResponseURL, for every request type and every outcome of the collaborators;
\* an invocation with no region ends without one.
C3_ResponseWhenRegionGiven ==
  /\ (InHandler /\ RegionGiven) ~> (Done /\ puts # <<>>)
  /\ [](InHandler /\ ~RegionGiven => puts = <<>>)

C3_Witness ==
  /\ InHandler /\ Done /\ request_type = "Delete"
  /\ propRegion = None /\ envRegion = "eu-west-1"
  /\ "cleanup_returned" \in {steps[i] : i \in 1..Len(steps)}
  /\ Len(puts) = 2

\* C4 as stated, for the case it gets wrong: when handler has sent FAILED
\* (the request is Delete and kubectl is missing or not executable), FAILED is
\* the status the caller receives, and never SUCCESS.
C4_Original ==
  (InHandler /\ Done /\ "FAILED" \in Sent) =>
    \A i \in 1..Len(received) : received[i] = "FAILED"

\* C5: when ResourceProperties carries no Region (or an empty one) and
\* AWS_REGION is unset (or empty), handler raises ValueError in its first
\* step, for every request type: no kubectl, aws, EC2, IAM or response call is
\* ever made.
C5_NoRegionRaisesFirst ==
  (InHandler /\ propRegion \in {None, ""} /\ envRegion \in {None, ""}) =>
    /\ calls = {}
    /\ puts = <<>>
    /\ steps = <<>>
    /\ pc \in {"h_entry", "done"}
    /\ Done => result = Raised("ValueError")

C5_Witness ==
  /\ InHandler /\ Done /\ request_type = "Delete"
  /\ propRegion = "" /\ envRegion = None
  /\ result = Raised("ValueError")

\* n attempts that each detach the role, fail to delete with a conflict, and
\* sleep
RECURSIVE ConflictRun(_)
ConflictRun(n) ==
  IF n <= 0 THEN <<>>
  ELSE <<Ev("detach", "ok"), Ev("delete", "conflict"), Ev("sleep", "ok")>>
         \o ConflictRun(n - 1)

\* the thread is in the retry loop of a profile
InProfile == pc \in {"c_attempt", "c_detach", "c_delete", "c_sleep", "c_end"}

\* every attempt of a history detached the role and then failed to delete
\* with a conflict
OnlyDeleteConflicts(h) ==
  \A i \in 1..Len(h) :
    /\ h[i].op = "detach" => h[i].res = "ok"
    /\ h[i].op = "delete" => h[i].res = "conflict"

\* C6: with max_retries >= 1, a delete that fails with a conflict before the
\* last attempt is followed by the backoff sleep and another attempt; a
\* profile whose delete conflicts on max_retries - 1 consecutive attempts and
\* succeeds on the next one ends up deleted; and a successful delete is the
\* last call made for its profile.
C6_RetryThenSuccess ==
  (InProfile /\ max_retries >= 1) =>
    /\ \A i \in 1..Len(hist) :
         (/\ hist[i] = Ev("delete", "conflict")
          /\ CountOp(SubSeq(hist, 1, i), "detach") < max_retries) =>
            IF i < Len(hist) THEN hist[i + 1] = Ev("sleep", "ok")
            ELSE pc = "c_sleep"
    /\ hist = ConflictRun(max_retries - 1) =>
         pc \in {"c_attempt", "c_detach"} /\ attempt = max_retries - 1
    /\ hist = ConflictRun(max_retries - 1)
                \o <<Ev("detach", "ok"), Ev("delete", "ok")>> =>
         pc = "c_end" /\ Summary(hist) = "deleted"
    /\ \A i \in 1..Len(hist) :
         hist[i] = Ev("delete", "ok") => i = Len(hist) /\ pc = "c_end"

C6_Witness ==
  /\ max_retries = 3
  /\ pc = "c_end"
  /\ hist = ConflictRun(2) \o <<Ev("detach", "ok"), Ev("delete", "ok")>>

\* C7: a profile whose delete fails with a conflict on every attempt gets
\* exactly max_retries attempts and max_retries - 1 sleeps, none after the
\* last attempt; it is never deleted; a warning is logged for it; and the
\* listing goes on with the next profile.
C7_ExhaustedThenNext ==
  /\ [](pc = "c_end" /\ max_retries >= 1 /\ OnlyDeleteConflicts(hist) =>
          hist = ConflictRun(max_retries - 1)
                   \o <<Ev("detach", "ok"), Ev("delete", "conflict"),
                        Ev("warn", "exhausted")>>)
  /\ [][(pc = "c_end" /\ Summary(hist) = "exhausted") =>
          /\ pc' = "c_profile"
          /\ finished' = Append(finished, "exhausted")
          /\ UNCHANGED <<pageLeft, result, listError>>]_vars
  /\ [][(pc = "c_profile" /\ pageLeft > 0) =>
          pc' = "c_attempt" /\ attempt' = 0 /\ hist' = <<>>]_vars

C7_Witness ==
  /\ max_retries = 3
  /\ finished = <<"exhausted">>
  /\ pc = "c_delete"
  /\ hist = <<Ev("detach", "ok")>>

\* the frame of wait_for_karpenter_nodes_terminated is live, or the function
\* was called directly and has ended
InWait ==
  \/ pc \in {"w_client", "w_test", "w_query", "w_sleep", "w_return"}
  \/ entry = "wait" /\ Done

\* C8: when a describe_instances answer holds zero instances the function
\* returns True in that poll: no sleep follows it and no further query, so
\* the sleeps made are those of the earlier polls; an empty first answer
\* returns True with no sleep at all.
C8_EmptyAnswerReturnsTrue ==
  lastCount = 0 =>
    /\ waitResult = "True"
    /\ pc \in {"w_return", "done"}
    /\ result.status # "raised"
    /\ polls >= 1
    /\ sleeps = polls - 1

C8_Witness ==
  /\ InHandler /\ pc = "w_return"
  /\ polls = 1 /\ sleeps = 0 /\ lastCount = 0
  /\ waitResult = "True"

\* C9: the function polls only while the elapsed time is below the timeout;
\* it returns False only once the elapsed time has reached the timeout, after
\* a latest answer that was not empty, and without raising; it returns True
\* only after an empty answer; and with every sleep advancing the clock by
\* 15 s the number of polls is bounded by the timeout.
C9_TimeoutReturnsFalse ==
  InWait =>
    /\ pc = "w_query" => elapsed < timeout
    /\ waitResult = "False" =>
         /\ elapsed >= timeout
         /\ lastCount # 0
         /\ sleeps = polls
         /\ pc \in {"w_return", "done"}
         /\ result.status # "raised"
    /\ waitResult = "True" => lastCount = 0
    /\ sleeps * PollSleep <= elapsed
    /\ polls >= 1 => (polls - 1) * PollSleep < timeout

C9_Witness ==
  /\ entry = "wait" /\ Done /\ result = Returned
  /\ waitResult = "False"
  /\ polls = 2 /\ lastCount >= 1

StepSet == {steps[i] : i \in 1..Len(steps)}

\* C10 as stated: when a bulk delete exceeds its timeout the remaining steps
\* (instance wait, instance-profile cleanup) are still executed before the
\* response is sent.
C10_Original ==
  (InHandler /\ Done /\ caught.step \in BulkDeletes
     /\ caught.exc = "TimeoutExpired") =>
    {"wait", "cleanup"} \subseteq StepSet

\* C10 as amended: when the bulk delete of node pools or of node classes
\* exceeds its timeout, the timed-out delete is the last step of the teardown:
\* no warning is logged for it, no later step runs (no node-class delete after
\* a node-pool timeout, no EC2 or IAM call), and the response sent is SUCCESS
\* with the message "Cleanup attempted but timed out".
C10_BulkDeleteTimeoutEndsTeardown ==
  (InHandler /\ caught.step \in BulkDeletes /\ caught.exc = "TimeoutExpired") =>
    /\ steps[Len(steps)] = caught.step
    /\ caught.step \notin warnings
    /\ calls \cap {"ec2_describe", "iam_list", "iam_detach", "iam_delete"} = {}
    /\ pc \in {"send", "done"}
    /\ pc = "send" =>
         pending = [status |-> "SUCCESS",
                    msg |-> "Cleanup attempted but timed out", step |-> None]
    /\ Done =>
         puts = <<[status |-> "SUCCESS",
                   msg |-> "Cleanup attempted but timed out"]>>

C10_Witness ==
  /\ InHandler /\ Done /\ result = Returned
  /\ caught = [clause |-> "timeout", step |-> "nodepools",
               exc |-> "TimeoutExpired"]
  /\ steps = <<"version", "kubeconfig", "nodepools">>
  /\ received = <<"SUCCESS">>

\* the teardown sequence of a Delete invocation, each call with its return
FullSequence == <<"version", "kubeconfig", "nodepools", "nodeclasses", "wait",
                  "wait_returned", "cleanup", "cleanup_returned">>

CleanedUp == [status |-> "SUCCESS",
              msg |-> "Karpenter resources cleaned up successfully"]

\* C11: a non-zero exit of the node-pool or node-class delete is logged as a
\* warning and the next step follows at once; the exit code skips nothing:
\* unless a later step raises, the invocation ends with every step of the
\* sequence executed and the response SUCCESS "cleaned up successfully"; and
\* whatever happens later, every response sent is SUCCESS.
C11_NonZeroExitContinues ==
  (InHandler /\ warnings # {}) =>
    /\ "nodepools" \in warnings =>
         pc = "h_nodeclasses" \/ "nodeclasses" \in StepSet
    /\ "nodeclasses" \in warnings => pc = "h_wait" \/ "wait" \in StepSet
    /\ (pc = "h_report" \/ (Done /\ caught = NoCaught)) => steps = FullSequence
    /\ (Done /\ caught = NoCaught) => puts = <<CleanedUp>>
    /\ Sent \subseteq {"SUCCESS"}
    /\ pc = "send" => pending.status = "SUCCESS"

C11_Witness ==
  /\ InHandler /\ Done /\ result = Returned
  /\ warnings = {"nodepools", "nodeclasses"}
  /\ steps = FullSequence
  /\ puts = <<CleanedUp>>

\* cleanup_instance_profiles has ended: it returns to handler, or its direct
\* call is over
CleanupEnded == pc = "c_return" \/ (entry = "cleanup" /\ Done)

Listed == Len(finished) + pageLeft + (IF InProfile THEN 1 ELSE 0)

\* C13: when the listing has yielded no profile at all, or its first request
\* failed because the role does not exist, cleanup_instance_profiles returns
\* normally and has made no detach call, no delete call and no backoff sleep.
C13_NothingToClean ==
  /\ (CleanupEnded /\ calls \cap {"iam_list"} # {} /\ Listed = 0) =>
       /\ result.status # "raised"
       /\ calls \cap {"iam_detach", "iam_delete"} = {}
       /\ hist = <<>> /\ finished = <<>> /\ attempt = 0
  /\ (calls \cap {"iam_list"} # {} /\ pagesFetched = 0 /\ pc # "c_page") =>
       /\ listError \in {"NoSuchEntity", "Exception"}
       /\ CleanupEnded \/ pc \in {"h_report", "send", "done"}
       /\ InHandler => caught.step # "cleanup"

C13_Witness ==
  /\ entry = "cleanup" /\ Done /\ result = Returned
  /\ listError = "NoSuchEntity"
  /\ max_retries = 3
  /\ calls = {"iam_list"}

\* C14: a Delete event with ClusterName and Region given, for which the
\* instance wait found zero matching instances and the listing found zero
\* instance profiles, is answered with Status SUCCESS and the message
\* "Karpenter resources cleaned up successfully": it is the first response
\* handler sends.
C14_EndToEndSuccess ==
  (/\ InHandler /\ request_type = "Delete" /\ propRegion = "us-east-1"
   /\ waitResult = "True"
   /\ "cleanup_returned" \in StepSet
   /\ finished = <<>>) =>
    /\ steps = FullSequence
    /\ pc \in {"h_report", "send", "done"}
    /\ (pc = "send" /\ puts = <<>>) =>
         pending = [status |-> "SUCCESS", msg |-> CleanedUp.msg,
                    step |-> "report"]
    /\ Done => puts # <<>> /\ puts[1] = CleanedUp
    /\ Sent \subseteq {"SUCCESS"}

C14_Witness ==
  /\ InHandler /\ request_type = "Delete" /\ propRegion = "us-east-1"
  /\ Done /\ result = Returned
  /\ waitResult = "True"
  /\ finished = <<>> /\ listError = None /\ pagesFetched = 1
  /\ puts = <<CleanedUp>> /\ received = <<"SUCCESS">>

\* C15: when the instance wait has returned False, handler goes on:
\* cleanup_instance_profiles is called and returns, and then the response
\* SUCCESS "cleaned up successfully" is sent; no response other than SUCCESS
\* is sent.
C15_WaitTimeoutIgnored ==
  (InHandler /\ waitResult = "False" /\ "wait_returned" \in StepSet) =>
    /\ pc = "h_cleanup" \/ "cleanup" \in StepSet
    /\ caught.step \notin {"wait", "cleanup"}
    /\ pc \in {"h_report", "send", "done"} => steps = FullSequence
    /\ (pc = "send" /\ puts = <<>>) =>
         pending = [status |-> "SUCCESS", msg |-> CleanedUp.msg,
                    step |-> "report"]
    /\ Done => puts # <<>> /\ puts[1] = CleanedUp
    /\ Sent \subseteq {"SUCCESS"}

C15_Witness ==
  /\ InHandler /\ Done /\ result = Returned
  /\ waitResult = "False"
  /\ finished = <<"deleted">>
  /\ puts = <<CleanedUp>>

\* C16 as stated: in one invocation of handler at most one response is put to
\* the ResponseURL, and two responses of one invocation never differ in their
\* status, also when the sending call raises inside the try block.
C16_Original ==
  InHandler =>
    /\ Len(puts) <= 1
    /\ \A i, j \in 1..Len(puts) : puts[i].status = puts[j].status

\* C17: every delete_instance_profile call on a profile, on a first attempt
\* or on a retry, comes directly after a remove_role_from_instance_profile
\* call of the same attempt that returned normally; after a detach that
\* raised, no delete is issued in that attempt.
C17_DetachBeforeDelete ==
  /\ \A i \in 1..Len(hist) :
       hist[i].op = "delete" => (i > 1 /\ hist[i-1] = Ev("detach", "ok"))
  /\ \A i \in 1..Len(hist) :
       (hist[i].op = "detach" /\ hist[i].res # "ok" /\ i < Len(hist)) =>
         hist[i+1].op # "delete"
  /\ pc = "c_delete" => (hist # <<>> /\ hist[Len(hist)] = Ev("detach", "ok"))

C17_Witness ==
  /\ pc = "c_end"
  /\ Len(hist) = 5
  /\ hist[2] = Ev("delete", "conflict")
  /\ hist[3] = Ev("sleep", "ok")
  /\ hist[4] = Ev("detach", "ok")
  /\ hist[5].op = "delete"

\* C18: a detach or delete call that fails with not-found, or with an error
\* that is not a conflict, is the last call made for its profile: the retry
\* loop has ended, nothing but the warning of line 89 follows in the
\* profile's history (no sleep, no detach, no delete), and the next step
\* closes the profile without any call and goes on with the listing.
C18_NonConflictEndsProfile ==
  /\ [](\A i \in 1..Len(hist) :
          hist[i].res \in {"notfound", "other"} =>
            /\ pc = "c_end"
            /\ IF hist[i].res = "notfound"
                 THEN i = Len(hist)
                 ELSE i = Len(hist) - 1
                      /\ hist[Len(hist)] = Ev("warn", "abandoned"))
  /\ [][(pc = "c_end" /\ Summary(hist) \in {"gone", "abandoned"}) =>
          /\ pc' = "c_profile"
          /\ calls' = calls
          /\ finished' = Append(finished, Summary(hist))
          /\ UNCHANGED <<pageLeft, pagesFetched, result, listError>>]_vars

C18_Witness ==
  /\ finished = <<"abandoned">>
  /\ pc = "c_detach"
  /\ attempt = 0
  /\ max_retries = 3

\* C19: cleanup_instance_profiles, once called, comes to its end (it returns,
\* or raises at the construction of its client) whatever the listing and the
\* IAM calls answer. For every profile it makes at most max_retries attempts
\* (each starts with a detach call) and at most max_retries - 1 sleeps (none
\* when max_retries is 0, where no attempt is made at all); every sleep comes
\* directly after a call that failed with a conflict and is followed by the
\* detach call of another attempt on the same profile.
C19_BoundedRetries ==
  /\ [](/\ CountOp(hist, "detach") <= max_retries
        /\ CountOp(hist, "delete") <= max_retries
        /\ CountOp(hist, "sleep")
             <= (IF max_retries >= 1 THEN max_retries - 1 ELSE 0)
        /\ pc = "c_sleep" =>
             (hist # <<>> /\ hist[Len(hist)].res = "conflict")
        /\ \A i \in 1..Len(hist) :
             hist[i].op = "sleep" =>
               /\ i > 1
               /\ hist[i-1].op \in {"detach", "delete"}
               /\ hist[i-1].res = "conflict"
               /\ IF i < Len(hist)
                    THEN hist[i+1].op = "detach"
                    ELSE pc \in {"c_attempt", "c_detach"}
                         /\ attempt < max_retries)
  /\ (pc = "c_client") ~> CleanupEnded

C19_Witness ==
  /\ max_retries = 3
  /\ pc = "c_end"
  /\ Len(hist) = 8
  /\ hist[1] = Ev("detach", "conflict")
  /\ hist[2] = Ev("sleep", "ok")
  /\ CountOp(hist, "sleep") = 2
  /\ CountOp(hist, "detach") = 3
  /\ hist[8] = Ev("warn", "exhausted")

\* the first n elements of a sequence
Prefix(q, n) == SubSeq(q, 1, n)

\* C20: the steps a handler invocation has started or finished are always an
\* initial part of the one sequence kubectl version, update-kubeconfig,
\* node-pool delete, node-class delete, instance wait (called, returned),
\* instance-profile cleanup (called, returned): fixed order, nothing twice.
\* No step runs once a response has been put; the response with the message
\* "Karpenter resources cleaned up successfully" is prepared and sent only
\* with the whole sequence behind it; and an IAM call (list, detach, delete)
\* is issued only after the instance wait has returned.
C20_FixedOrder ==
  /\ [](InHandler =>
          /\ Len(steps) <= Len(FullSequence)
          /\ steps = Prefix(FullSequence, Len(steps))
          /\ (\/ pending.msg = CleanedUp.msg
              \/ \E i \in 1..Len(puts) : puts[i] = CleanedUp)
               => steps = FullSequence
          /\ calls \cap {"iam_list", "iam_detach", "iam_delete"} # {} =>
               /\ "wait_returned" \in StepSet
               /\ "cleanup" \in StepSet
          /\ "ec2_describe" \in calls => "nodeclasses" \in StepSet)
  /\ [][(InHandler /\ puts # <<>>) =>
          /\ steps' = steps
          /\ calls' \subseteq calls \cup {"http_put"}]_vars

C20_Witness ==
  /\ InHandler /\ Done /\ request_type = "Delete"
  /\ steps = FullSequence
  /\ {"kubectl_delete", "ec2_describe", "iam_detach", "iam_delete"}
       \subseteq calls
  /\ finished = <<"deleted", "gone">>
  /\ puts = <<CleanedUp>>
====
